---- MODULE Spec2Model ----
(***************************************************************************)
(* Model of the Forumbee API extraction scripts.                           *)
(*                                                                         *)
(*   get-post-text.py            main driver, get_all_categories,          *)
(*                               paginated get_posts_for_category,         *)
(*                               save_posts_to_csv                         *)
(*   get-categories-post-list.py get_all_categories, single-call           *)
(*                               get_posts_for_category                    *)
(*   get-categories.py           get_all_categories (JSON)                 *)
(*   test-connection.py          validate_domain, test_connection          *)
(*                                                                         *)
(* Strings the code inspects character by character (host names, category  *)
(* names) are sequences of one-character strings.  Records served by the   *)
(* API are natural numbers; a server dataset is a sequence of them in the  *)
(* server's sort order.                                                    *)
(***************************************************************************)
EXTENDS Integers, Sequences, FiniteSets, TLC

VARIABLES
    pc,          \* position of the running script
    limit,       \* page size sent as "limit" (the literal 1000 in the source)
    categories,  \* main: list returned by get_all_categories
    idx,         \* main: 1-based index of the for-loop over categories
    all_posts,   \* get_posts_for_category: accumulated records
    offset,      \* get_posts_for_category: offset sent with the next GET
    report,      \* messages printed by the except-handlers of the running operation
    saved,       \* file names written by save_posts_to_csv, in order
    dataset,     \* server side: records of the category being listed, in sort order
    dataset0,    \* history: dataset when the running invocation started
    calls,       \* history: offsets of the GETs issued by the running invocation
    failIdx,     \* history: index in calls of the GET that raised, 0 if none
    lastOut,     \* history: outcome of the most recent GET
    attempts,    \* history: category keys passed to get_posts_for_category, in order
    failures,    \* history: number of get_posts_for_category invocations that raised
    nMut,        \* history: server-side mutations during the running invocation
    insAhead,    \* history: a record was inserted at a position before offset
    remAhead,    \* history: a record was removed at a position before offset
    touched,     \* history: records inserted or removed during the running invocation
    skippable,   \* history: a removal before offset moved an unfetched record across it
    domain,      \* test_connection: the domain argument
    clean_domain \* test_connection: what validate_domain returned

vars == <<pc, limit, categories, idx, all_posts, offset, report, saved, dataset,
          dataset0, calls, failIdx, lastOut, attempts, failures, nMut, insAhead,
          remAhead, touched, skippable, domain, clean_domain>>

----------------------------------------------------------------------------
(* Bounds of the model *)

MaxLimit == 3        \* page sizes 1..MaxLimit are explored beside the source's 1000
MaxPages == 2        \* a dataset holds at most MaxPages full pages plus a remainder
MaxCategories == 2   \* length of the category list the server returns
MaxMutations == 2    \* server-side mutations during one invocation
MaxLiveRecords == 4  \* size of a dataset that is mutated while it is listed

(* Program constant: limit = 1000, get-post-text.py line 101 *)
Limit == 1000

PageSizes == (1..MaxLimit) \cup {Limit}

Min(a, b) == IF a < b THEN a ELSE b

(* Character classes *)
AsciiLower == {"a", "b", "c", "d", "e", "f", "g", "h", "i", "j", "k", "l", "m",
               "n", "o", "p", "q", "r", "s", "t", "u", "v", "w", "x", "y", "z"}
AsciiUpper == {"A", "B", "C", "D", "E", "F", "G", "H", "I", "J", "K", "L", "M",
               "N", "O", "P", "Q", "R", "S", "T", "U", "V", "W", "X", "Y", "Z"}
AsciiDigit == {"0", "1", "2", "3", "4", "5", "6", "7", "8", "9"}
AsciiAlpha == AsciiLower \cup AsciiUpper
AsciiAlnum == AsciiAlpha \cup AsciiDigit
Whitespace == {" ", "\t", "\n", "\r"}

Range(s) == {s[i] : i \in 1..Len(s)}

(* Dataset sizes explored for page size N: whole pages plus a remainder of *)
(* 0, 1, N/2 or N-1 records.                                               *)
DatasetSizes(N) ==
    {p * N + r : p \in 0..MaxPages, r \in {x \in {0, 1, N \div 2, N - 1} : x < N}}

Datasets(N) == {[i \in 1..R |-> i] : R \in DatasetSizes(N)}

LiveDatasets == {[i \in 1..R |-> i] : R \in 0..MaxLiveRecords}

----------------------------------------------------------------------------
(* The remote service *)

(* What requests.get can do: raise a transport error, or return a response *)
(* with a status code and a body that parses or does not.                  *)
StatusCodes == {200, 401, 404, 500}

Outcomes ==
    {[kind |-> "transport", status |-> 0, bodyOk |-> FALSE]}
    \cup {[kind |-> "response", status |-> s, bodyOk |-> TRUE] : s \in StatusCodes}
    \cup {[kind |-> "response", status |-> 200, bodyOk |-> FALSE]}

(* The posts endpoint answers "limit" and "offset" with the records at     *)
(* positions offset+1 .. offset+limit of the dataset, fewer at its end.    *)
ServerPage(data, off, lim) == SubSeq(data, off + 1, Min(off + lim, Len(data)))

(* A CSV body: the header row, then one row per record. *)
CsvBody(rows) == <<"header">> \o rows

(* Rows of the category listing. *)
CategoryRows ==
    { [name |-> <<"N", "e", "w", "s">>, categoryKey |-> "c1"],
      [name |-> <<"Q", "&", "A", " ">>, categoryKey |-> "c2"],
      [name |-> <<"O", "l", "d">>,      categoryKey |-> ""] }

SeqsUpTo(S, n) == UNION {[1..k -> S] : k \in 0..n}

CategoryLists == SeqsUpTo(CategoryRows, MaxCategories)

----------------------------------------------------------------------------
(* Library behaviour the scripts rely on *)

(* response.raise_for_status(): raises HTTPError for 4xx and 5xx. *)
RaisesForStatus(status) == status >= 400 /\ status < 600

(* list(csv.DictReader(StringIO(text))): the first row names the fields,   *)
(* every later row is one record; no rows at all gives the empty list.     *)
DecodeCsv(body) == IF body = <<>> THEN <<>> ELSE Tail(body)

(* The exception a GET outcome raises inside the try block, "none" if the  *)
(* body is reached and parsed.                                             *)
Raised(out) ==
    IF out.kind = "transport" THEN "RequestException"
    ELSE IF RaisesForStatus(out.status) THEN "HTTPError"
    ELSE IF ~out.bodyOk THEN "Exception"
    ELSE "none"

----------------------------------------------------------------------------
(* get-post-text.py: get_all_categories *)

(* The except clauses in source order: HTTPError, RequestException,        *)
(* Exception.  The HTTPError handler prints the status code itself.        *)
CategoriesReport(out) ==
    IF Raised(out) = "HTTPError"
    THEN <<[handler |-> "HTTPError", status |-> out.status, err |-> "HTTPError"]>>
    ELSE IF Raised(out) = "RequestException"
    THEN <<[handler |-> "RequestException", status |-> 0, err |-> "RequestException"]>>
    ELSE IF Raised(out) = "Exception"
    THEN <<[handler |-> "Exception", status |-> 0, err |-> "Exception"]>>
    ELSE <<>>

get_all_categories(out, rows) ==
    IF Raised(out) # "none" THEN <<>> ELSE DecodeCsv(CsvBody(rows))

----------------------------------------------------------------------------
(* get-post-text.py: get_posts_for_category *)

(* The single handler "except Exception as err": the message interpolates  *)
(* the exception, the handler itself prints no status code.                *)
PostsReport(out) ==
    <<[handler |-> "Exception", status |-> 0, err |-> Raised(out)]>>

(* Variants of the loop's steps, used to show that the properties below    *)
(* depend on them: a handler that retries, one that re-raises, pages       *)
(* prepended, a page of exactly limit records taken as the last one, a     *)
(* short page not taken as the last one, an offset advanced one too far.   *)
AfterErrorRetry == "fetch"
AfterErrorReraise == "raised"
ExtendPrepend(acc, posts) == posts \o acc
IsLastPageInclusive(posts, lim) == Len(posts) <= lim
IsLastPageNever(posts, lim) == FALSE
NextOffsetSkip(off, lim) == off + lim + 1

(* An offset advanced by one instead of by the page size. *)
NextOffsetByOne(off, lim) == off + 1

(* Where the loop goes after the handler ran: "break". *)
AfterError == "returned"

(* all_posts.extend(posts) *)
Extend(acc, posts) == acc \o posts

(* if len(posts) < limit: break *)
IsLastPage(posts, lim) == Len(posts) < lim

(* offset += limit *)
NextOffset(off, lim) == off + lim

----------------------------------------------------------------------------
(* get-post-text.py: save_posts_to_csv *)

(* datetime.now().strftime('%Y%m%d_%H%M%S') *)
Timestamps == {"20250101_120000"}

(* c.isalnum() or c in (' ', '-', '_') *)
SafeChar(c) == c \in AsciiAlnum \cup {" ", "-", "_"}

(* A strip() that removes nothing. *)
StripNone(s) == s

(* str.strip(): leading and trailing whitespace removed. *)
RECURSIVE LStrip(_)
LStrip(s) == IF s # <<>> /\ s[1] \in Whitespace THEN LStrip(Tail(s)) ELSE s

RECURSIVE RStrip(_)
RStrip(s) ==
    IF s # <<>> /\ s[Len(s)] \in Whitespace THEN RStrip(SubSeq(s, 1, Len(s) - 1)) ELSE s

Strip(s) == RStrip(LStrip(s))

(* str.replace(' ', '_') *)
ReplaceSpaces(s) == [i \in 1..Len(s) |-> IF s[i] = " " THEN "_" ELSE s[i]]

(* "".join(c for c in category_name if ...).strip(), then .replace(' ', '_') *)
safe_category_name(name) == ReplaceSpaces(Strip(SelectSeq(name, SafeChar)))

(* f"{timestamp}_{safe_category_name}_posts.csv" *)
FileName(ts, name) == <<ts, "_">> \o safe_category_name(name) \o <<"_posts.csv">>

save_posts_to_csv(saves, posts, name, ts) ==
    IF posts = <<>> THEN saves ELSE Append(saves, FileName(ts, name))

----------------------------------------------------------------------------
(* get-post-text.py: the script *)

NoConnection == domain = <<>> /\ clean_domain = <<>>

NoMutation ==
    /\ nMut = 0 /\ insAhead = FALSE /\ remAhead = FALSE
    /\ touched = {} /\ skippable = FALSE

(* The whole script is explored with the page sizes 1..MaxLimit; one       *)
(* invocation of get_posts_for_category, below, also with the source's.    *)
Init ==
    /\ pc = "main"
    /\ limit \in 1..MaxLimit
    /\ categories = <<>>
    /\ idx = 1
    /\ all_posts = <<>>
    /\ offset = 0
    /\ report = <<>>
    /\ saved = <<>>
    /\ dataset = <<>>
    /\ dataset0 = <<>>
    /\ calls = <<>>
    /\ failIdx = 0
    /\ lastOut = [kind |-> "response", status |-> 200, bodyOk |-> TRUE]
    /\ attempts = <<>>
    /\ failures = 0
    /\ NoMutation
    /\ NoConnection

mutVars == <<nMut, insAhead, remAhead, touched, skippable>>

connVars == <<domain, clean_domain>>

(* categories = get_all_categories(); if categories: ... else: ... *)
MainListCategories ==
    /\ pc = "main"
    /\ \E out \in Outcomes, rows \in CategoryLists :
          /\ categories' = get_all_categories(out, rows)
          /\ report' = CategoriesReport(out)
          /\ lastOut' = out
          /\ pc' = IF categories' # <<>> THEN "loop" ELSE "done"
    /\ UNCHANGED <<limit, idx, all_posts, offset, saved, dataset, dataset0, calls,
                   failIdx, attempts, failures>>
    /\ UNCHANGED <<mutVars, connVars>>

(* for category in categories: ... if category_key: ... else: print *)
MainSkipCategory ==
    /\ pc = "loop"
    /\ idx <= Len(categories)
    /\ categories[idx].categoryKey = ""
    /\ idx' = idx + 1
    /\ UNCHANGED <<pc, limit, categories, all_posts, offset, report, saved, dataset,
                   dataset0, calls, failIdx, lastOut, attempts, failures>>
    /\ UNCHANGED <<mutVars, connVars>>

(* posts = get_posts_for_category(category_key): entry, up to "while True"; *)
(* the category holds one of the given datasets.                           *)
CallGetPostsOn(datasets) ==
    /\ pc = "loop"
    /\ idx <= Len(categories)
    /\ categories[idx].categoryKey # ""
    /\ attempts' = Append(attempts, categories[idx].categoryKey)
    /\ all_posts' = <<>>
    /\ offset' = 0
    /\ report' = <<>>
    /\ calls' = <<>>
    /\ failIdx' = 0
    /\ dataset' \in datasets
    /\ dataset0' = dataset'
    /\ nMut' = 0 /\ insAhead' = FALSE /\ remAhead' = FALSE
    /\ touched' = {} /\ skippable' = FALSE
    /\ pc' = "fetch"
    /\ UNCHANGED <<limit, categories, idx, saved, lastOut, failures>>
    /\ UNCHANGED connVars

CallGetPosts == CallGetPostsOn(Datasets(limit))

(* One iteration of "while True": the GET, then the handler or the page. *)
FetchPage ==
    /\ pc = "fetch"
    /\ \E out \in Outcomes :
          LET posts == DecodeCsv(CsvBody(ServerPage(dataset, offset, limit))) IN
          /\ calls' = Append(calls, offset)
          /\ lastOut' = out
          /\ IF Raised(out) # "none"
             THEN /\ report' = report \o PostsReport(out)
                  /\ failIdx' = Len(calls')
                  /\ failures' = failures + 1
                  /\ pc' = AfterError
                  /\ UNCHANGED <<all_posts, offset>>
             ELSE /\ UNCHANGED <<report, failIdx, failures>>
                  /\ IF posts = <<>>
                     THEN /\ pc' = "returned"
                          /\ UNCHANGED <<all_posts, offset>>
                     ELSE /\ all_posts' = Extend(all_posts, posts)
                          /\ IF IsLastPage(posts, limit)
                             THEN /\ pc' = "returned"
                                  /\ UNCHANGED offset
                             ELSE /\ pc' = "fetch"
                                  /\ offset' = NextOffset(offset, limit)
    /\ UNCHANGED <<limit, categories, idx, saved, dataset, dataset0, attempts>>
    /\ UNCHANGED <<mutVars, connVars>>

(* Back in the for-loop: if posts: save_posts_to_csv(...) else: print *)
ReturnToMain ==
    /\ pc = "returned"
    /\ \E ts \in Timestamps :
          saved' = save_posts_to_csv(saved, all_posts, categories[idx].name, ts)
    /\ idx' = idx + 1
    /\ pc' = "loop"
    /\ UNCHANGED <<limit, categories, all_posts, offset, report, dataset, dataset0,
                   calls, failIdx, lastOut, attempts, failures>>
    /\ UNCHANGED <<mutVars, connVars>>

(* The for-loop is exhausted: the script ends. *)
MainExit ==
    /\ pc = "loop"
    /\ idx > Len(categories)
    /\ pc' = "done"
    /\ UNCHANGED <<limit, categories, idx, all_posts, offset, report, saved, dataset,
                   dataset0, calls, failIdx, lastOut, attempts, failures>>
    /\ UNCHANGED <<mutVars, connVars>>

Next ==
    \/ MainListCategories
    \/ MainSkipCategory
    \/ CallGetPosts
    \/ FetchPage
    \/ ReturnToMain
    \/ MainExit

Spec == Init /\ [][Next]_vars

----------------------------------------------------------------------------
(* One invocation of get_posts_for_category: the script right after        *)
(* get_all_categories returned one category, with every page size.         *)

OneCategory == {<<row>> : row \in {c \in CategoryRows : c.categoryKey # ""}}

FetchInit ==
    /\ pc = "loop"
    /\ limit \in PageSizes
    /\ categories \in OneCategory
    /\ idx = 1
    /\ all_posts = <<>>
    /\ offset = 0
    /\ report = <<>>
    /\ saved = <<>>
    /\ dataset = <<>>
    /\ dataset0 = <<>>
    /\ calls = <<>>
    /\ failIdx = 0
    /\ lastOut = [kind |-> "response", status |-> 200, bodyOk |-> TRUE]
    /\ attempts = <<>>
    /\ failures = 0
    /\ NoMutation
    /\ NoConnection

FetchNext ==
    \/ CallGetPosts
    \/ FetchPage
    \/ ReturnToMain
    \/ MainExit

FetchSpec == FetchInit /\ [][FetchNext]_vars

(* Every GET returns or raises, and the interpreter keeps running. *)
FairFetchSpec == FetchSpec /\ WF_vars(FetchNext)

----------------------------------------------------------------------------
(* A live collection: the server's dataset changes between page fetches.   *)

InsertAt(data, p, r) == SubSeq(data, 1, p) \o <<r>> \o SubSeq(data, p + 1, Len(data))

RemoveAt(data, i) == SubSeq(data, 1, i - 1) \o SubSeq(data, i + 1, Len(data))

(* The script right after get_all_categories returned one category. *)
LiveInit ==
    /\ pc = "loop"
    /\ limit \in 1..MaxLimit
    /\ categories \in OneCategory
    /\ idx = 1
    /\ all_posts = <<>>
    /\ offset = 0
    /\ report = <<>>
    /\ saved = <<>>
    /\ dataset = <<>>
    /\ dataset0 = <<>>
    /\ calls = <<>>
    /\ failIdx = 0
    /\ lastOut = [kind |-> "response", status |-> 200, bodyOk |-> TRUE]
    /\ attempts = <<>>
    /\ failures = 0
    /\ NoMutation
    /\ NoConnection

(* A record is inserted after position p, between two page fetches. *)
ServerInsert ==
    /\ pc = "fetch"
    /\ calls # <<>>
    /\ nMut < MaxMutations
    /\ \E p \in 0..Len(dataset) :
          LET r == Len(dataset0) + nMut + 1 IN
          /\ dataset' = InsertAt(dataset, p, r)
          /\ insAhead' = (insAhead \/ p < offset)
          /\ touched' = touched \cup {r}
    /\ nMut' = nMut + 1
    /\ UNCHANGED <<pc, limit, categories, idx, all_posts, offset, report, saved,
                   dataset0, calls, failIdx, lastOut, attempts, failures, remAhead,
                   skippable>>
    /\ UNCHANGED connVars

(* The record at position i is removed, between two page fetches. *)
ServerRemove ==
    /\ pc = "fetch"
    /\ calls # <<>>
    /\ nMut < MaxMutations
    /\ \E i \in 1..Len(dataset) :
          /\ dataset' = RemoveAt(dataset, i)
          /\ remAhead' = (remAhead \/ i <= offset)
          /\ skippable' = (skippable \/ (i <= offset /\ Len(dataset) > offset))
          /\ touched' = touched \cup {dataset[i]}
    /\ nMut' = nMut + 1
    /\ UNCHANGED <<pc, limit, categories, idx, all_posts, offset, report, saved,
                   dataset0, calls, failIdx, lastOut, attempts, failures, insAhead>>
    /\ UNCHANGED connVars

LiveCallGetPosts == CallGetPostsOn(LiveDatasets)

LiveNext ==
    \/ LiveCallGetPosts
    \/ FetchPage
    \/ ReturnToMain
    \/ MainExit
    \/ ServerInsert
    \/ ServerRemove

LiveSpec == LiveInit /\ [][LiveNext]_vars

----------------------------------------------------------------------------
(* Properties of the paginated get_posts_for_category (get-post-text.py)   *)

InInvocation == pc \in {"fetch", "returned"}

Returned == pc = "returned"

IsPrefix(s, t) == Len(s) <= Len(t) /\ s = SubSeq(t, 1, Len(s))

HasDuplicate(s) == \E i, j \in 1..Len(s) : i < j /\ s[i] = s[j]

(* The offsets 0, N, 2N, ..., floor(R/N)*N *)
ExpectedCalls(R, N) == [i \in 1..(R \div N + 1) |-> (i - 1) * N]

(* C1: with a static dataset of R records and no failing call, the         *)
(* invocation issues exactly floor(R/N)+1 GETs, at offsets 0, N, 2N, ...,  *)
(* floor(R/N)*N in that order; a further GET is pending only while every   *)
(* page so far was full; R=2500, N=1000 gives offsets 0, 1000, 2000; a     *)
(* full page followed by an empty page gives exactly two calls.            *)
C1_CallSchedule ==
    (InInvocation /\ failIdx = 0) =>
        /\ IsPrefix(calls, ExpectedCalls(Len(dataset), limit))
        /\ pc = "fetch" => Len(calls) * limit <= Len(dataset)
        /\ Returned => calls = ExpectedCalls(Len(dataset), limit)
        /\ (Returned /\ limit = 1000 /\ Len(dataset) = 2500)
              => calls = <<0, 1000, 2000>>
        /\ (Returned /\ Len(dataset) = limit) => calls = <<0, limit>>

C1_Witness ==
    /\ Returned /\ failIdx = 0
    /\ limit = 1000 /\ Len(dataset) = 2500
    /\ calls = <<0, 1000, 2000>>
    /\ Len(all_posts) = 2500

(* C2: with a static dataset and no failing call, the returned list is     *)
(* exactly the server's records in server order, each once.                *)
C2_ResultIsDataset ==
    (InInvocation /\ failIdx = 0) =>
        /\ IsPrefix(all_posts, dataset)
        /\ Returned => all_posts = dataset

C2_Witness ==
    /\ Returned /\ failIdx = 0
    /\ Len(dataset) > 2 * limit
    /\ limit > 1
    /\ all_posts = dataset

Is401 == lastOut.kind = "response" /\ lastOut.status = 401

ReportedAsHttp401 ==
    /\ Len(report) = 1
    /\ report[1].handler = "HTTPError"
    /\ report[1].status = 401

KeysToFetch(cats) ==
    LET withKey == SelectSeq(cats, LAMBDA c : c.categoryKey # "")
    IN  [i \in 1..Len(withKey) |-> withKey[i].categoryKey]

(* C5: no error of a listing call leaves the query operation: the script   *)
(* is always at one of its own positions, a failing query returns an empty *)
(* or partial list, and the fetch is attempted for every category with a   *)
(* non-empty categoryKey, in list order, whatever failed before.           *)
C5_ErrorsContained ==
    /\ pc \in {"main", "loop", "fetch", "returned", "done"}
    /\ (InInvocation /\ failIdx # 0) => IsPrefix(all_posts, dataset)
    /\ InInvocation => attempts = KeysToFetch(SubSeq(categories, 1, idx))
    /\ pc = "loop" => attempts = KeysToFetch(SubSeq(categories, 1, idx - 1))
    /\ pc = "done" => attempts = KeysToFetch(categories)

C5_Witness ==
    /\ pc = "done"
    /\ Len(attempts) = 2
    /\ failures = 2
    /\ Len(saved) = 1

(* C9: whatever calls fail, an invocation over a static dataset of R       *)
(* records issues at most floor(R/N)+1 GETs, a further one only after      *)
(* fewer than that, and it returns.                                        *)
CallsBounded ==
    InInvocation =>
        /\ Len(calls) <= Len(dataset) \div limit + 1
        /\ pc = "fetch" => Len(calls) <= Len(dataset) \div limit

Missing == {r \in Range(dataset0) \ touched : r \notin Range(all_posts)}

(* C10: under server-side mutation between page fetches exactly-once       *)
(* delivery fails, and by these causes: a duplicate in the result needs an *)
(* insertion before the offset, a missing record a removal before the      *)
(* offset; a single insertion before the offset always duplicates the last *)
(* fetched record, a single removal before the offset always skips the     *)
(* next unfetched one.                                                     *)
C10_MutationBreaksExactlyOnce ==
    (Returned /\ failIdx = 0) =>
        /\ HasDuplicate(all_posts) => insAhead
        /\ Missing # {} => remAhead
        /\ (nMut = 1 /\ insAhead) => HasDuplicate(all_posts)
        /\ (nMut = 1 /\ skippable) => Missing # {}
        /\ nMut = 0 => all_posts = dataset

C10_Witness ==
    /\ Returned /\ failIdx = 0
    /\ insAhead /\ remAhead
    /\ HasDuplicate(all_posts)
    /\ Missing # {}

----------------------------------------------------------------------------
(* save_posts_to_csv applied to category names drawn from a bounded set:   *)
(* the script at the point where get_posts_for_category has returned for   *)
(* its only category.                                                      *)

MaxNameLen == 3

NameChars == {"Q", "7", "&", " ", "-", "_"}

SupportName ==
    <<"Q", "&", "A", " ", "/", " ", "S", "u", "p", "p", "o", "r", "t", "!">>

NameInputs(n) == SeqsUpTo(NameChars, n) \cup {SupportName}

SaveInit ==
    /\ pc = "returned"
    /\ limit = Limit
    /\ \E name \in NameInputs(MaxNameLen) : categories = <<[name |-> name, categoryKey |-> "c1"]>>
    /\ idx = 1
    /\ dataset \in {<<>>, <<1>>}
    /\ dataset0 = dataset
    /\ all_posts = dataset
    /\ offset = 0
    /\ report = <<>>
    /\ saved = <<>>
    /\ calls = <<0>>
    /\ failIdx = 0
    /\ lastOut = [kind |-> "response", status |-> 200, bodyOk |-> TRUE]
    /\ attempts = <<"c1">>
    /\ failures = 0
    /\ NoMutation
    /\ NoConnection

SaveNext == ReturnToMain \/ MainExit

SaveSpec == SaveInit /\ [][SaveNext]_vars

(* The state in which the only category's file has been written. *)
FileWritten == pc \in {"loop", "done"} /\ idx = 2 /\ Len(saved) = 1

Fragment(file) == SubSeq(file, 3, Len(file) - 1)

(* C7 as stated: stripping the characters that are not alphanumeric,       *)
(* space, hyphen or underscore and converting spaces to underscores turns  *)
(* "Q&A / Support!" into the fragment "QA_Support" after the timestamp.    *)
C7_FragmentAsStated ==
    (FileWritten /\ categories[1].name = SupportName) =>
        /\ saved[1][1] \in Timestamps
        /\ Fragment(saved[1]) = <<"Q", "A", "_", "S", "u", "p", "p", "o", "r", "t">>

LeadingSpaces(s) ==
    IF \A i \in 1..Len(s) : s[i] = " " THEN Len(s)
    ELSE (CHOOSE i \in 1..Len(s) : s[i] # " " /\ \A j \in 1..(i - 1) : s[j] = " ") - 1

TrailingSpaces(s) ==
    IF \A i \in 1..Len(s) : s[i] = " " THEN 0
    ELSE Len(s) - (CHOOSE i \in 1..Len(s) : s[i] # " " /\ \A j \in (i + 1)..Len(s) : s[j] = " ")

(* C7 amended: the file name is the timestamp, "_", the fragment and       *)
(* "_posts.csv"; the fragment is the category name without the characters  *)
(* that are not alphanumeric, space, hyphen or underscore, without the     *)
(* leading and trailing spaces that leaves, and with every remaining space *)
(* turned into one underscore, so "Q&A / Support!" gives "QA__Support".    *)
C7_FragmentSanitized ==
    FileWritten =>
        LET name == categories[1].name
            file == saved[1]
            frag == Fragment(file)
            kept == SelectSeq(name, LAMBDA c : c \in AsciiAlnum \cup {" ", "-", "_"})
            lead == LeadingSpaces(kept)
            trail == TrailingSpaces(kept)
        IN  /\ file[1] \in Timestamps
            /\ file[2] = "_"
            /\ file[Len(file)] = "_posts.csv"
            /\ Len(frag) = Len(kept) - lead - trail
            /\ \A i \in 1..Len(frag) :
                  /\ frag[i] \in AsciiAlnum \cup {"-", "_"}
                  /\ frag[i] = IF kept[lead + i] = " " THEN "_" ELSE kept[lead + i]
            /\ name = SupportName =>
                  frag = <<"Q", "A", "_", "_", "S", "u", "p", "p", "o", "r", "t">>

C7_Witness ==
    /\ FileWritten
    /\ categories[1].name = SupportName
    /\ Fragment(saved[1]) = <<"Q", "A", "_", "_", "S", "u", "p", "p", "o", "r", "t">>

----------------------------------------------------------------------------
(* test-connection.py *)

MaxHostLen == 5

HostChars == {"a", "1", "-", ".", " "}

HostPrefixes ==
    { <<>>,
      <<"h", "t", "t", "p", ":", "/", "/">>,
      <<"h", "t", "t", "p", "s", ":", "/", "/">> }

HostTails == {<<>>, <<"/">>, <<"/", "/">>, <<"\n">>, <<"/", "\n">>, <<"\n", "/">>}

NotADomain == <<"n", "o", "t", " ", "a", " ", "d", "o", "m", "a", "i", "n">>

ExampleCom == <<"e", "x", "a", "m", "p", "l", "e", ".", "c", "o", "m">>

(* Domain arguments: a protocol prefix or none, up to n host characters,   *)
(* then slashes or a line end or none; and two sample strings.             *)
HostInputs(n) ==
    {pre \o body \o tail :
        pre \in HostPrefixes, body \in SeqsUpTo(HostChars, n), tail \in HostTails}
    \cup {NotADomain, ExampleCom}

StartsWith(s, pre) == Len(s) >= Len(pre) /\ SubSeq(s, 1, Len(pre)) = pre

DropFirst(s, n) == SubSeq(s, n + 1, Len(s))

(* re.sub(r'^https?://', '', domain) *)
StripProtocol(s) ==
    IF StartsWith(s, <<"h", "t", "t", "p", "s", ":", "/", "/">>) THEN DropFirst(s, 8)
    ELSE IF StartsWith(s, <<"h", "t", "t", "p", ":", "/", "/">>) THEN DropFirst(s, 7)
    ELSE s

(* domain.rstrip('/') *)
RECURSIVE RStripSlash(_)
RStripSlash(s) ==
    IF s # <<>> /\ s[Len(s)] = "/" THEN RStripSlash(SubSeq(s, 1, Len(s) - 1)) ELSE s

(* The pieces of s between its dots. *)
RECURSIVE SplitDots(_)
SplitDots(s) ==
    IF \A i \in 1..Len(s) : s[i] # "." THEN <<s>>
    ELSE LET d == CHOOSE i \in 1..Len(s) : s[i] = "." /\ \A j \in 1..(i - 1) : s[j] # "."
         IN  <<SubSeq(s, 1, d - 1)>> \o SplitDots(SubSeq(s, d + 1, Len(s)))

(* [a-zA-Z0-9][a-zA-Z0-9-]{0,61}[a-zA-Z0-9] *)
MatchLabel(l) ==
    /\ Len(l) >= 2 /\ Len(l) <= 63
    /\ l[1] \in AsciiAlnum
    /\ l[Len(l)] \in AsciiAlnum
    /\ \A i \in 2..(Len(l) - 1) : l[i] \in AsciiAlnum \cup {"-"}

(* [a-zA-Z]{2,} *)
MatchTld(l) == Len(l) >= 2 /\ \A i \in 1..Len(l) : l[i] \in AsciiAlpha

(* ^label(?:\.label)*\.tld with nothing left over: no class of the pattern *)
(* contains the dot, so the pieces between the dots are the labels.        *)
MatchWhole(s) ==
    LET parts == SplitDots(s) IN
    /\ Len(parts) >= 2
    /\ \A i \in 1..(Len(parts) - 1) : MatchLabel(parts[i])
    /\ MatchTld(parts[Len(parts)])

(* "$" without re.MULTILINE matches at the end of the string and just      *)
(* before a newline that ends the string: what the pattern consumed.       *)
Dollar(s) ==
    {s} \cup (IF s # <<>> /\ s[Len(s)] = "\n" THEN {SubSeq(s, 1, Len(s) - 1)} ELSE {})

(* re.match(pattern, domain) *)
DomainMatch(s) == \E consumed \in Dollar(s) : MatchWhole(consumed)

Cleaned(d) == RStripSlash(StripProtocol(d))

ConnInit ==
    /\ pc = "tc_start"
    /\ domain \in HostInputs(MaxHostLen)
    /\ clean_domain = <<>>
    /\ limit = 1
    /\ categories = <<>>
    /\ idx = 1
    /\ all_posts = <<>>
    /\ offset = 0
    /\ report = <<>>
    /\ saved = <<>>
    /\ dataset = <<>>
    /\ dataset0 = <<>>
    /\ calls = <<>>
    /\ failIdx = 0
    /\ lastOut = [kind |-> "response", status |-> 200, bodyOk |-> TRUE]
    /\ attempts = <<>>
    /\ failures = 0
    /\ NoMutation

(* validate_domain, called first by test_connection: it returns the        *)
(* cleaned domain or raises ValueError, which nothing catches.             *)
ValidateDomain ==
    /\ pc = "tc_start"
    /\ IF DomainMatch(Cleaned(domain))
       THEN /\ clean_domain' = Cleaned(domain)
            /\ pc' = "tc_validated"
            /\ UNCHANGED report
       ELSE /\ report' = <<[handler |-> "uncaught", status |-> 0, err |-> "ValueError"]>>
            /\ pc' = "tc_raised"
            /\ UNCHANGED clean_domain
    /\ UNCHANGED <<limit, categories, idx, all_posts, offset, saved, dataset, dataset0,
                   calls, failIdx, lastOut, attempts, failures, domain>>
    /\ UNCHANGED mutVars

(* The handlers of test_connection: HTTPError, then Exception. *)
ConnectionReport(out) ==
    IF Raised(out) = "HTTPError"
    THEN <<[handler |-> "HTTPError", status |-> out.status, err |-> "HTTPError"]>>
    ELSE IF Raised(out) # "none"
    THEN <<[handler |-> "Exception", status |-> 0, err |-> Raised(out)]>>
    ELSE <<>>

(* requests.get(test_url, ..., params={"limit": 1}) and what follows. *)
TestGet ==
    /\ pc = "tc_validated"
    /\ \E out \in Outcomes :
          /\ calls' = Append(calls, clean_domain)
          /\ lastOut' = out
          /\ report' = ConnectionReport(out)
    /\ pc' = "tc_done"
    /\ UNCHANGED <<limit, categories, idx, all_posts, offset, saved, dataset, dataset0,
                   failIdx, attempts, failures>>
    /\ UNCHANGED <<mutVars, connVars>>

ConnNext == ValidateDomain \/ TestGet

ConnSpec == ConnInit /\ [][ConnNext]_vars

(* A host name: letters, digits, hyphens and dots only, no empty label,    *)
(* no label that begins or ends with a hyphen.                             *)
WellFormedHost(h) ==
    /\ h # <<>>
    /\ \A i \in 1..Len(h) : h[i] \in AsciiAlnum \cup {"-", "."}
    /\ h[1] \notin {"-", "."}
    /\ h[Len(h)] \notin {"-", "."}
    /\ \A i \in 1..(Len(h) - 1) :
          /\ ~(h[i] = "." /\ h[i + 1] \in {".", "-"})
          /\ ~(h[i] = "-" /\ h[i + 1] = ".")

(* C6: a host string that is malformed or missing after the protocol       *)
(* prefix and the trailing slashes are stripped ends in the validation     *)
(* error with no GET issued; a GET is issued only for the cleaned host     *)
(* validate_domain returned.                                               *)
C6_MalformedHostNoGet ==
    /\ ~WellFormedHost(Cleaned(domain)) =>
          /\ pc \in {"tc_start", "tc_raised"}
          /\ calls = <<>>
          /\ pc = "tc_raised" => report[1].err = "ValueError"
    /\ calls # <<>> =>
          /\ pc = "tc_done"
          /\ calls = <<clean_domain>>
          /\ clean_domain = Cleaned(domain)

----------------------------------------------------------------------------
(* The listing operations of get-categories-post-list.py and               *)
(* get-categories.py, each called once.                                    *)

(* get-categories-post-list.py, get_posts_for_category: one GET with       *)
(* "limit": 1000 and no offset; the handler returns the empty list.        *)
get_posts_single(out, data, lim) ==
    IF Raised(out) # "none" THEN <<>> ELSE DecodeCsv(CsvBody(ServerPage(data, 0, lim)))

(* get-categories.py: data = response.json(); data.get("categories", []) *)
JsonBody(rows, hasKey) == IF hasKey THEN [categories |-> rows] ELSE [other |-> rows]

DecodeJsonCategories(body) ==
    IF "categories" \in DOMAIN body THEN body.categories ELSE <<>>

get_all_categories_json(out, rows, hasKey) ==
    IF Raised(out) # "none" THEN <<>> ELSE DecodeJsonCategories(JsonBody(rows, hasKey))

(* A body that is not JSON raises requests' JSONDecodeError, a             *)
(* RequestException in current releases of the library and a plain         *)
(* ValueError in older ones: either handler may take it.                   *)
JsonReport(out, decodeHandler) ==
    IF Raised(out) = "Exception"
    THEN <<[handler |-> decodeHandler, status |-> 0, err |-> "JSONDecodeError"]>>
    ELSE CategoriesReport(out)

ListInit ==
    /\ pc \in {"posts_call", "categories_csv_call", "categories_json_call"}
    /\ limit \in PageSizes
    /\ dataset \in (IF pc = "posts_call" THEN Datasets(limit) ELSE {<<>>})
    /\ dataset0 = dataset
    /\ categories = <<>>
    /\ idx = 1
    /\ all_posts = <<>>
    /\ offset = 0
    /\ report = <<>>
    /\ saved = <<>>
    /\ calls = <<>>
    /\ failIdx = 0
    /\ lastOut = [kind |-> "response", status |-> 200, bodyOk |-> TRUE]
    /\ attempts = <<>>
    /\ failures = 0
    /\ NoMutation
    /\ NoConnection

PostsSingleCall ==
    /\ pc = "posts_call"
    /\ \E out \in Outcomes :
          /\ calls' = <<0>>
          /\ lastOut' = out
          /\ all_posts' = get_posts_single(out, dataset, limit)
          /\ report' = (IF Raised(out) # "none" THEN PostsReport(out) ELSE <<>>)
          /\ failIdx' = (IF Raised(out) # "none" THEN 1 ELSE 0)
    /\ pc' = "posts_returned"
    /\ UNCHANGED <<limit, categories, idx, offset, saved, dataset, dataset0, attempts,
                   failures>>
    /\ UNCHANGED <<mutVars, connVars>>

CategoriesCsvCall ==
    /\ pc = "categories_csv_call"
    /\ \E out \in Outcomes, rows \in CategoryLists :
          /\ calls' = <<0>>
          /\ lastOut' = out
          /\ categories' = get_all_categories(out, rows)
          /\ report' = CategoriesReport(out)
          /\ failIdx' = (IF Raised(out) # "none" THEN 1 ELSE 0)
    /\ pc' = "categories_returned"
    /\ UNCHANGED <<limit, idx, all_posts, offset, saved, dataset, dataset0, attempts,
                   failures>>
    /\ UNCHANGED <<mutVars, connVars>>

CategoriesJsonCall ==
    /\ pc = "categories_json_call"
    /\ \E out \in Outcomes, rows \in CategoryLists, hasKey \in BOOLEAN,
          decodeHandler \in {"RequestException", "Exception"} :
          /\ calls' = <<0>>
          /\ lastOut' = out
          /\ categories' = get_all_categories_json(out, rows, hasKey)
          /\ report' = JsonReport(out, decodeHandler)
          /\ failIdx' = (IF Raised(out) # "none" THEN 1 ELSE 0)
    /\ pc' = "categories_returned"
    /\ UNCHANGED <<limit, idx, all_posts, offset, saved, dataset, dataset0, attempts,
                   failures>>
    /\ UNCHANGED <<mutVars, connVars>>

ListNext == PostsSingleCall \/ CategoriesCsvCall \/ CategoriesJsonCall

ListSpec == ListInit /\ [][ListNext]_vars

(* C8: get_posts_for_category of get-categories-post-list.py returns all   *)
(* R posts of the category when no call fails, also when R exceeds limit.  *)
C8_SingleCallFetchesAll ==
    (pc = "posts_returned" /\ failIdx = 0) => all_posts = dataset

----------------------------------------------------------------------------
(* C11: whenever get_posts_for_category (get-post-text.py) is about to     *)
(* issue a GET, with a server that returns at most limit records a page,   *)
(* the offset it sends is a multiple of limit, is greater than the offset  *)
(* of every earlier call of the invocation and equals the number of        *)
(* records in all_posts; the first GET of every invocation is sent with    *)
(* offset 0 and an empty all_posts.                                        *)
C11_OffsetInvariant ==
    /\ pc = "fetch" =>
          /\ offset % limit = 0
          /\ \A i \in 1..Len(calls) : calls[i] < offset
          /\ offset = Len(all_posts)
          /\ calls = <<>> => (offset = 0 /\ all_posts = <<>>)
    /\ InInvocation =>
          /\ \A i \in 1..Len(calls) : calls[i] % limit = 0
          /\ \A i, j \in 1..Len(calls) : i < j => calls[i] < calls[j]
          /\ calls # <<>> => calls[1] = 0

(* The second invocation of a run, about to send its third GET, after a    *)
(* first invocation that returned records.                                 *)
C11_Witness ==
    /\ pc = "fetch"
    /\ Len(attempts) = 2
    /\ saved # <<>>
    /\ limit > 1
    /\ Len(calls) = 2
    /\ offset = 2 * limit
    /\ Len(all_posts) = offset

====
